---------------------------- MODULE Spec2Model ----------------------------
(***************************************************************************)
(* PartyPrint polling service: the polling loop with its dedup ledger, and *)
(* the image geometry computed by preprocess_image_for_print.              *)
(*                                                                         *)
(* Two iterations of the script are modelled, selected by `script`:        *)
(*   "client"  src/printer-client/polling_script.py                        *)
(*   "legacy"  src/polling_script.py                                       *)
(***************************************************************************)
EXTENDS Integers, Sequences, FiniteSets

VARIABLES
    script,            \* which iteration of the script is running
    DRY_RUN,           \* module constant DRY_RUN of the running process
    IMAGE_RESOLUTION,  \* module constant IMAGE_RESOLUTION
    BORDER_K,          \* BORDER_INCHES in 64ths of an inch (0.25 in = 16)
    pc,                \* position of the process in the script
    ledger,            \* lines of the file PRINTED_TRACKER, oldest first
    printed,           \* the in-memory set `printed`
    filename,          \* response["filename"] of the current iteration
    dl,                \* outcome of this iteration's download request
    img,               \* the file at original_path (downloaded content)
    out,               \* result of preprocess_image_for_print
    lp,                \* outcome of this iteration's lp command
    ev,                \* what the last step logged
    lpCount,           \* history: successful lp submissions per filename (0, 1, 2 = more)
    pollSeq,           \* history: parity of the poll requests issued
    runs,              \* history: processes started after the first
    out2,              \* result of preprocessing the saved output once more
    calls,             \* locals of concurrent preprocess_image_for_print calls
    cups,              \* what lpstat -p -d reports, and the PRINTER_NAME env value
    PRINTER_NAME       \* module global PRINTER_NAME: the selected printer

vars == <<script, DRY_RUN, IMAGE_RESOLUTION, BORDER_K, pc, ledger, printed,
          filename, dl, img, out, lp, ev, lpCount, pollSeq, runs, out2, calls,
          cups, PRINTER_NAME>>

(***************************************************************************)
(* Bounds of the model.                                                    *)
(***************************************************************************)
MaxFiles == 2
MaxRuns == 1
DimStep == 799
DimSteps == 3
BorderStep == 17
BorderSteps == 2

Files == 1..MaxFiles

Scripts == {"client", "legacy"}

Resolutions == {"300dpi", "600dpi"}

\* BORDER_INCHES as k/64: such a value and its product with 300 or 600 are
\* exact in binary floating point, so int(BORDER_INCHES * dpi_value) is the
\* integer quotient below.  16 = 0.25 in (the configured value), 0 = no
\* border, 128 = 2 in and 160 = 2.5 in consume the short axis of the canvas.
BorderKs == {0, 16, 128, 160} \cup {BorderStep * i : i \in 1..BorderSteps}

SrcDims == {1, 100, 1200, 1800, 3000, 4000} \cup {DimStep * i : i \in 1..DimSteps}

\* EXIF orientation codes exercised: 1 (upright), 6 and 8 (rotate by 90
\* degrees, either way).
Orients == {1, 6, 8}

Abs(n) == IF n < 0 THEN -n ELSE n

Max(a, b) == IF a >= b THEN a ELSE b

Min(a, b) == IF a <= b THEN a ELSE b

\* math.ceil(a / b) for b > 0
CeilDiv(a, b) == -((-a) \div b)

Range(s) == {s[i] : i \in 1..Len(s)}

IsPrefix(s, t) == Len(s) <= Len(t) /\ SubSeq(t, 1, Len(s)) = s

(***************************************************************************)
(* Printers: the result of get_available_printers() and the environment.   *)
(* "" stands for None and for an unset or empty environment variable.      *)
(***************************************************************************)
NoCups == [printers |-> <<>>, default_printer |-> "", env_printer |-> ""]

\* PRINTER_NAME before the selection has run.
Unset == "unset"

\* Every discovery exercised: none, one or two printers in either order; a
\* default that is absent, listed or not listed ("ghost"); likewise the
\* PRINTER_NAME environment value.
Discoveries ==
    [printers : {<<>>, <<"selphy">>, <<"office", "selphy">>, <<"selphy", "office">>},
     default_printer : {"", "selphy", "office", "ghost"},
     env_printer : {"", "selphy", "ghost"}]

\* The discoveries the polling loop is run with: no printer, or the one
\* printer, which is the system default.
LoopDiscoveries ==
    {NoCups,
     [printers |-> <<"selphy">>, default_printer |-> "selphy", env_printer |-> ""]}

(***************************************************************************)
(* Downloaded content.                                                     *)
(***************************************************************************)
NoImg ==
    [kind |-> "none", w |-> 0, h |-> 0, orient |-> 1, tieCeil |-> FALSE,
     mode |-> "RGB", px |-> 0, alpha |-> 255]

Junk(k) ==
    [kind |-> k, w |-> 0, h |-> 0, orient |-> 1, tieCeil |-> FALSE,
     mode |-> "RGB", px |-> 0, alpha |-> 255]

\* tieCeil: how floating point resolves an exact tie in round_aspect for
\* this picture (toward the ceiling or the floor).
\* mode, px, alpha: the picture is painted flat, every pixel storing the
\* colour level px (0 black .. 255 white) and, in mode RGBA, the opacity
\* alpha (0 fully transparent .. 255 opaque).
Picture(w, h, o, t) ==
    [kind |-> "image", w |-> w, h |-> h, orient |-> o, tieCeil |-> t,
     mode |-> "RGB", px |-> 40, alpha |-> 255]

Painted(p, mode, c, a) == [p EXCEPT !.mode = mode, !.px = c, !.alpha = a]

\* <<mode, px, alpha>> of the pictures exercised.
Paints == {<<"RGB", 40, 255>>, <<"RGBA", 40, 0>>, <<"RGBA", 40, 128>>, <<"RGBA", 40, 255>>}

AllPictures ==
    {Painted(Picture(w, h, o, t), v[1], v[2], v[3]) :
        w \in SrcDims, h \in SrcDims, o \in Orients, t \in BOOLEAN, v \in Paints}

(***************************************************************************)
(* preprocess_image_for_print: geometry.                                   *)
(***************************************************************************)
ExifTransposeIgnored(im) == [w |-> im.w, h |-> im.h]

\* ImageOps.exif_transpose: codes 5..8 transpose the raster.
ExifTranspose(im) ==
    IF im.orient \in 5..8
        THEN [w |-> im.h, h |-> im.w]
        ELSE [w |-> im.w, h |-> im.h]

IsPortraitInverted(w, h) == w > h

\* is_portrait = img.height > img.width
IsPortrait(w, h) == h > w

DpiValue(scr, res) == IF scr = "client" /\ res = "600dpi" THEN 600 ELSE 300

BaseWidth(scr, res) == 6 * DpiValue(scr, res)

BaseHeight(scr, res) == 4 * DpiValue(scr, res)

TargetWidthAlways1800(scr, res, w, h) == 1800

TargetWidth(scr, res, w, h) ==
    IF scr = "client" /\ IsPortrait(w, h)
        THEN BaseHeight(scr, res)
        ELSE BaseWidth(scr, res)

TargetHeight(scr, res, w, h) ==
    IF scr = "client" /\ IsPortrait(w, h)
        THEN BaseWidth(scr, res)
        ELSE BaseHeight(scr, res)

\* int(BORDER_INCHES * dpi_value); the legacy script has no border.
BorderPixels(scr, res, k) ==
    IF scr = "client" THEN (k * DpiValue(scr, res)) \div 64 ELSE 0

\* round_aspect(number, key) of Image.thumbnail:
\* max(min(floor, ceil, key=key), 1), where fl and ce are the floor and the
\* ceiling of number and c is the sign of key(fl) - key(ce) in exact
\* arithmetic.  When the two keys are exactly equal the floating-point
\* comparison decides, either way: tieCeil.
RoundAspect(fl, ce, c, tieCeil) ==
    Max(IF fl = ce \/ c < 0 THEN fl
        ELSE IF c > 0 THEN ce
        ELSE IF tieCeil THEN ce ELSE fl, 1)

Sign(n) == IF n < 0 THEN -1 ELSE IF n > 0 THEN 1 ELSE 0

\* key = abs(aspect - n / y), aspect = w / h
KeyWidth(w, h, y, a, b) == Sign(Abs(w * y - a * h) - Abs(w * y - b * h))

\* key = 0 if n == 0 else abs(aspect - x / n)
KeyHeight(w, h, x, a, b) ==
    LET ka == IF a = 0 THEN 0 ELSE Abs(w * a - x * h) * Abs(b)
        kb == IF b = 0 THEN 0 ELSE Abs(w * b - x * h) * Abs(a)
    IN  IF a = 0 /\ b = 0 THEN 0
        ELSE IF a = 0 THEN -Sign(Abs(w * b - x * h))
        ELSE IF b = 0 THEN Sign(Abs(w * a - x * h))
        ELSE Sign(ka - kb)

\* The size preserve_aspect_ratio() returns for the box (x, y), y # 0.
PreserveAspectRatio(w, h, x, y, tieCeil) ==
    LET \* x / y >= aspect
        byHeight == IF y > 0 THEN x * h >= y * w ELSE x * h <= y * w
        \* y * aspect
        wFl == (y * w) \div h
        wCe == CeilDiv(y * w, h)
        \* x / aspect
        hFl == (x * h) \div w
        hCe == CeilDiv(x * h, w)
    IN  IF byHeight
            THEN <<RoundAspect(wFl, wCe, KeyWidth(w, h, y, wFl, wCe), tieCeil), y>>
            ELSE <<x, RoundAspect(hFl, hCe, KeyHeight(w, h, x, hFl, hCe), tieCeil)>>

ThumbnailStretch(w, h, x, y, tieCeil) == [ok |-> x >= 1 /\ y >= 1, w |-> x, h |-> y]

\* img.thumbnail((x, y), LANCZOS) on a w x h image: the new size, or the
\* exception (ZeroDivisionError in x / y, ValueError in resize).
Thumbnail(w, h, x, y, tieCeil) ==
    IF x >= w /\ y >= h THEN [ok |-> TRUE, w |-> w, h |-> h]
    ELSE IF y = 0 THEN [ok |-> FALSE, w |-> 0, h |-> 0]
    ELSE LET size == PreserveAspectRatio(w, h, x, y, tieCeil)
         IN  IF size = <<w, h>> THEN [ok |-> TRUE, w |-> w, h |-> h]
             ELSE [ok |-> size[1] >= 1 /\ size[2] >= 1,
                   w |-> size[1], h |-> size[2]]

OffsetCeil(target, fitted) == CeilDiv(target - fitted, 2)

\* (target - fitted) // 2
Offset(target, fitted) == (target - fitted) \div 2

\* if img.mode != 'RGB': img = img.convert('RGB').  Converting RGBA to RGB
\* keeps the three colour bands and discards the alpha band.
ConvertRGB(im) == im.px

\* The keyword arguments of canvas.save(..., 'JPEG', ...) that decide the
\* encoding.  Without a subsampling argument the encoder's default applies,
\* which is 4:2:0.
SaveOptions(scr) ==
    IF scr = "client"
        THEN [progressive |-> FALSE, subsampling |-> "4:4:4"]
        ELSE [progressive |-> FALSE, subsampling |-> "4:2:0"]

NoOut == [ok |-> FALSE, done |-> FALSE]

Failed == [ok |-> FALSE, done |-> TRUE]

\* The body of preprocess_image_for_print on the file `im` under the
\* configuration (scr, res, k): Failed when it raises, else the geometry of
\* the canvas it saves.
Preprocess(scr, res, k, im) ==
    IF im.kind # "image" THEN Failed
    ELSE LET up == ExifTranspose(im)
             tw == TargetWidth(scr, res, up.w, up.h)
             th == TargetHeight(scr, res, up.w, up.h)
             bp == BorderPixels(scr, res, k)
             aw == tw - 2 * bp
             ah == th - 2 * bp
             fit == Thumbnail(up.w, up.h, aw, ah, im.tieCeil)
         IN  IF ~fit.ok THEN Failed
             ELSE [ok |-> TRUE, done |-> TRUE,
                   srcW |-> up.w, srcH |-> up.h,
                   canvasW |-> tw, canvasH |-> th,
                   border |-> bp, availW |-> aw, availH |-> ah,
                   fitW |-> fit.w, fitH |-> fit.h,
                   x |-> Offset(tw, fit.w), y |-> Offset(th, fit.h),
                   dpi |-> DpiValue(scr, res),
                   px |-> ConvertRGB(im),
                   progressive |-> SaveOptions(scr).progressive,
                   subsampling |-> SaveOptions(scr).subsampling]

(***************************************************************************)
(* The geometry on its own: every configuration and picture, one call.     *)
(***************************************************************************)
GeomInit ==
    /\ script \in Scripts
    /\ IMAGE_RESOLUTION \in Resolutions
    /\ BORDER_K \in BorderKs
    /\ img \in AllPictures
    /\ DRY_RUN = TRUE
    /\ pc = "call"
    /\ ledger = <<>>
    /\ printed = {}
    /\ filename = 0
    /\ dl = "ok"
    /\ out = NoOut
    /\ lp = "none"
    /\ ev = "start"
    /\ lpCount = [f \in Files |-> 0]
    /\ pollSeq = 0
    /\ runs = 0
    /\ out2 = NoOut
    /\ calls = <<>>
    /\ cups = NoCups
    /\ PRINTER_NAME = Unset

GeomCall ==
    /\ pc = "call"
    /\ out' = Preprocess(script, IMAGE_RESOLUTION, BORDER_K, img)
    /\ pc' = "returned"
    /\ UNCHANGED <<out2, calls, cups, PRINTER_NAME>>
    /\ UNCHANGED <<script, DRY_RUN, IMAGE_RESOLUTION, BORDER_K, ledger, printed,
                   filename, dl, img, lp, ev, lpCount, pollSeq, runs>>

\* The file canvas.save wrote, opened again: a JPEG of the canvas size, with
\* no alpha and no EXIF orientation (save is given no exif argument).
Saved(o, t) == Painted(Picture(o.canvasW, o.canvasH, 1, t), "RGB", o.px, 255)

\* preprocess_image_for_print called on its own output, same configuration.
GeomAgain ==
    /\ pc = "returned"
    /\ out.ok
    /\ \E t \in BOOLEAN :
          out2' = Preprocess(script, IMAGE_RESOLUTION, BORDER_K, Saved(out, t))
    /\ pc' = "renormalized"
    /\ UNCHANGED <<script, DRY_RUN, IMAGE_RESOLUTION, BORDER_K, ledger, printed,
                   filename, dl, img, out, lp, ev, lpCount, pollSeq, runs, calls,
                   cups, PRINTER_NAME>>

GeomNext == GeomCall \/ GeomAgain

GeomSpec == GeomInit /\ [][GeomNext]_vars

(***************************************************************************)
(* Two concurrent calls of preprocess_image_for_print, on different input  *)
(* and output paths, their statements interleaved.  `calls` holds          *)
(*   pc     the position of each call,                                     *)
(*   inp    the file at each call's input_path,                            *)
(*   frame  the local variables, by frame,                                 *)
(*   file   the file at each call's output_path.                           *)
(***************************************************************************)
CallIds == {1, 2}

ConcPictures ==
    {Picture(4000, 3000, 1, FALSE), Picture(3000, 4000, 1, FALSE),
     Painted(Picture(100, 1200, 6, FALSE), "RGBA", 40, 0)}

ConcBorders == {0, 16, 128}

NoFrame ==
    [w |-> 0, h |-> 0, px |-> 0, tw |-> 0, th |-> 0, bp |-> 0,
     fitW |-> 0, fitH |-> 0]

FrameShared(c) == 1

\* img, is_portrait, target_width, ..., canvas are local variables of the
\* function: every call has its own frame.
Frame(c) == c

\* output_path of call c: the two calls are given different paths.
OutPath(c) == c

ConcInit ==
    /\ script \in Scripts
    /\ IMAGE_RESOLUTION \in Resolutions
    /\ BORDER_K \in ConcBorders
    /\ calls \in {[pc |-> [c \in CallIds |-> "open"],
                   inp |-> <<a, b>>,
                   frame |-> [c \in CallIds |-> NoFrame],
                   file |-> [c \in CallIds |-> NoOut]] :
                      a \in ConcPictures, b \in ConcPictures}
    /\ DRY_RUN = TRUE
    /\ pc = "concurrent"
    /\ ledger = <<>>
    /\ printed = {}
    /\ filename = 0
    /\ dl = "ok"
    /\ img = NoImg
    /\ out = NoOut
    /\ lp = "none"
    /\ ev = "start"
    /\ lpCount = [f \in Files |-> 0]
    /\ pollSeq = 0
    /\ runs = 0
    /\ out2 = NoOut
    /\ cups = NoCups
    /\ PRINTER_NAME = Unset

ConcFrame == UNCHANGED <<script, DRY_RUN, IMAGE_RESOLUTION, BORDER_K, pc, ledger, printed, filename, dl, img, out, lp, ev, lpCount, pollSeq, runs, out2, cups, PRINTER_NAME>>

\* Image.open, exif_transpose, convert('RGB')
ConcOpen(c) ==
    /\ calls.pc[c] = "open"
    /\ LET up == ExifTranspose(calls.inp[c])
       IN  calls' = [calls EXCEPT
                        !.frame[Frame(c)].w = up.w,
                        !.frame[Frame(c)].h = up.h,
                        !.frame[Frame(c)].px = ConvertRGB(calls.inp[c]),
                        !.pc[c] = "geometry"]
    /\ ConcFrame

\* is_portrait, target_width, target_height, border_pixels
ConcGeometry(c) ==
    /\ calls.pc[c] = "geometry"
    /\ LET f == calls.frame[Frame(c)]
       IN  calls' = [calls EXCEPT
                        !.frame[Frame(c)].tw =
                            TargetWidth(script, IMAGE_RESOLUTION, f.w, f.h),
                        !.frame[Frame(c)].th =
                            TargetHeight(script, IMAGE_RESOLUTION, f.w, f.h),
                        !.frame[Frame(c)].bp =
                            BorderPixels(script, IMAGE_RESOLUTION, BORDER_K),
                        !.pc[c] = "fit"]
    /\ ConcFrame

\* available_width, available_height, img.thumbnail; an exception leaves the
\* function without writing output_path.
ConcFit(c) ==
    /\ calls.pc[c] = "fit"
    /\ LET f == calls.frame[Frame(c)]
           fit == Thumbnail(f.w, f.h, f.tw - 2 * f.bp, f.th - 2 * f.bp,
                            calls.inp[c].tieCeil)
       IN  IF fit.ok
               THEN calls' = [calls EXCEPT
                                 !.frame[Frame(c)].fitW = fit.w,
                                 !.frame[Frame(c)].fitH = fit.h,
                                 !.pc[c] = "save"]
               ELSE calls' = [calls EXCEPT
                                 !.file[OutPath(c)] = Failed,
                                 !.pc[c] = "done"]
    /\ ConcFrame

\* Image.new, x_offset, y_offset, canvas.paste, canvas.save(output_path)
ConcSave(c) ==
    /\ calls.pc[c] = "save"
    /\ LET f == calls.frame[Frame(c)]
       IN  calls' = [calls EXCEPT
                        !.file[OutPath(c)] =
                            [ok |-> TRUE, done |-> TRUE,
                             srcW |-> f.w, srcH |-> f.h,
                             canvasW |-> f.tw, canvasH |-> f.th,
                             border |-> f.bp,
                             availW |-> f.tw - 2 * f.bp,
                             availH |-> f.th - 2 * f.bp,
                             fitW |-> f.fitW, fitH |-> f.fitH,
                             x |-> Offset(f.tw, f.fitW),
                             y |-> Offset(f.th, f.fitH),
                             dpi |-> DpiValue(script, IMAGE_RESOLUTION),
                             px |-> f.px,
                             progressive |-> SaveOptions(script).progressive,
                             subsampling |-> SaveOptions(script).subsampling],
                        !.pc[c] = "done"]
    /\ ConcFrame

ConcNext ==
    \E c \in CallIds : ConcOpen(c) \/ ConcGeometry(c) \/ ConcFit(c) \/ ConcSave(c)

ConcSpec == ConcInit /\ [][ConcNext]_vars

(***************************************************************************)
(* The polling service: startup, the polling loop, crash and restart.      *)
(***************************************************************************)
NoFile == 0

\* SKIP_PREPROCESSING, a debugging switch that both scripts leave off.
SKIP_PREPROCESSING == FALSE

\* Contents a download can deliver.  "html": markup whose first 100 bytes hold
\* <!DOCTYPE or <html; "xml": other markup (<?xml, <HTML>); "corrupt": bytes
\* that are neither markup nor a decodable image; "empty": no bytes.
JunkKinds == {"html", "xml", "corrupt", "empty"}

LoopPictures == {Picture(4000, 3000, 1, FALSE), Picture(100, 1200, 6, FALSE)}

Contents == {Junk(k) : k \in JunkKinds} \cup LoopPictures

\* The body of an HTTP error response.
ErrorBodies == {Junk("html"), Junk("xml"), Junk("empty")}

\* The geometry settings the service is run with: the configured ones, and a
\* border of 2 inches at 600 dpi, which leaves no safe rectangle.
LoopGeometry == {<<"300dpi", 16>>, <<"600dpi", 16>>, <<"600dpi", 128>>}

LoopPcs == {"poll", "download", "preprocess", "print", "postcheck", "record",
            "sleep5", "sleep10"}

InFlightPcs == {"download", "preprocess", "print", "postcheck", "record"}

Init ==
    /\ script \in Scripts
    /\ DRY_RUN \in BOOLEAN
    /\ \E g \in LoopGeometry : IMAGE_RESOLUTION = g[1] /\ BORDER_K = g[2]
    /\ pc = "startup"
    /\ ledger = <<>>
    /\ printed = {}
    /\ filename = NoFile
    /\ dl = "none"
    /\ img = NoImg
    /\ out = NoOut
    /\ lp = "none"
    /\ ev = "start"
    /\ lpCount = [f \in Files |-> 0]
    /\ pollSeq = 0
    /\ runs = 0
    /\ out2 = NoOut
    /\ calls = <<>>
    /\ cups \in LoopDiscoveries
    /\ PRINTER_NAME = Unset

HandlerAbsent == "exited"

\* `except Exception` around the loop body: log, time.sleep(10), loop again.
Handler == "sleep10"

ContinueFallsThrough(next) == next

\* `continue` where falling through would reach `next`: back to the top of
\* the loop, not through time.sleep(5).
Continue(next) == "poll"

\* printed = set(open(PRINTED_TRACKER).read().splitlines())
LoadPrinted(l) == Range(l)

WriteTruncating(l, f) == <<f>>

\* open(PRINTED_TRACKER, "a").write(filename + "\n")
WriteLedger(l, f) == Append(l, f)

IsPrintedNever(f, set) == FALSE

\* not (filename not in printed)
IsPrinted(f, set) == f \in set

SelectFirst(printers, default_printer, env_printer) == printers[1]

\* Priority: 1) PRINTER_NAME env var, 2) system default, 3) first available.
SelectPrinter(printers, default_printer, env_printer) ==
    IF env_printer # "" /\ env_printer \in Range(printers) THEN env_printer
    ELSE IF default_printer # "" /\ default_printer \in Range(printers)
        THEN default_printer
    ELSE printers[1]

\* os.getenv("PRINTER_NAME") and PRINTER_NAME in printers
EnvValid(c) == c.env_printer # "" /\ c.env_printer \in Range(c.printers)

\* What the operator can answer at the legacy script's prompt: Enter, a
\* printer's number, or Ctrl-C.  Any other input is asked again.
Choices(printers) ==
    {<<"enter", 0>>, <<"interrupt", 0>>} \cup {<<"number", n>> : n \in 1..Len(printers)}

\* The legacy script's selection for a valid answer of the operator.
SelectInteractive(c, choice) ==
    IF EnvValid(c) THEN c.env_printer
    ELSE IF choice[1] = "enter"
        THEN SelectPrinter(c.printers, c.default_printer, "")
    ELSE c.printers[choice[2]]

\* Module level: load the ledger, discover the printers and select one;
\* without a printer and outside dry-run the process exits.
Startup ==
    /\ pc = "startup"
    /\ printed' = LoadPrinted(ledger)
    /\ IF cups.printers = <<>>
          THEN IF ~DRY_RUN
                  THEN /\ pc' = "exited" /\ ev' = "no_printer"
                       /\ UNCHANGED PRINTER_NAME
                  ELSE /\ pc' = "poll" /\ ev' = "ready"
                       /\ PRINTER_NAME' = "None"
          ELSE IF script = "client"
                  THEN /\ PRINTER_NAME' = SelectPrinter(cups.printers,
                                              cups.default_printer, cups.env_printer)
                       /\ pc' = "poll" /\ ev' = "ready"
                  ELSE \E choice \in Choices(cups.printers) :
                          IF ~EnvValid(cups) /\ choice[1] = "interrupt"
                              THEN /\ pc' = "exited" /\ ev' = "cancelled"
                                   /\ UNCHANGED PRINTER_NAME
                              ELSE /\ PRINTER_NAME' = SelectInteractive(cups, choice)
                                   /\ pc' = "poll" /\ ev' = "ready"
    /\ UNCHANGED <<out2, calls, cups>>
    /\ UNCHANGED <<script, DRY_RUN, IMAGE_RESOLUTION, BORDER_K, ledger, filename,
                   dl, img, out, lp, lpCount, pollSeq, runs>>

\* requests.get(NEXT_JOB_URL).json(), the id check and the membership check.
Poll ==
    /\ pc = "poll"
    /\ pollSeq' = 1 - pollSeq
    /\ dl' = "none" /\ img' = NoImg /\ out' = NoOut /\ lp' = "none"
    /\ \/ /\ filename' = NoFile
          /\ ev' = "poll_error"
          /\ pc' = Handler
       \/ /\ filename' = NoFile
          /\ ev' = "no_job"
          /\ pc' = "sleep5"
       \/ \E f \in Files :
          /\ filename' = f
          /\ IF IsPrinted(f, printed)
                THEN ev' = "skip" /\ pc' = "sleep5"
                ELSE ev' = "job" /\ pc' = "download"
    /\ UNCHANGED <<out2, calls, cups, PRINTER_NAME>>
    /\ UNCHANGED <<script, DRY_RUN, IMAGE_RESOLUTION, BORDER_K, ledger, printed,
                   lpCount, runs>>

\* The position after the download in the client script.
AfterDownload == IF SKIP_PREPROCESSING THEN "print" ELSE "preprocess"

\* Download of the original file.  The client checks the status and the
\* length and skips the job with `continue`; the legacy script writes
\* whatever body arrives, and an exception reaches the outer handler.
Download ==
    /\ pc = "download"
    /\ \/ /\ dl' = "neterr" /\ img' = NoImg
          /\ ev' = "download_failed"
          /\ pc' = IF script = "client" THEN Continue("preprocess") ELSE Handler
       \/ /\ dl' = "httperr"
          /\ IF script = "client"
                THEN /\ img' = NoImg
                     /\ ev' = "download_failed"
                     /\ pc' = Continue("preprocess")
                ELSE /\ img' \in ErrorBodies
                     /\ ev' = "downloaded"
                     /\ pc' = "preprocess"
       \/ /\ dl' = "ioerr" /\ img' = NoImg
          /\ ev' = "download_error"
          /\ pc' = Handler
       \/ \E c \in Contents :
          /\ dl' = "ok"
          /\ img' = c
          /\ IF script = "client" /\ c.kind = "empty"
                THEN ev' = "download_empty" /\ pc' = Continue("preprocess")
                ELSE /\ ev' = "downloaded"
                     /\ pc' = IF script = "client" THEN AfterDownload ELSE "preprocess"
    /\ UNCHANGED <<out2, calls, cups, PRINTER_NAME>>
    /\ UNCHANGED <<script, DRY_RUN, IMAGE_RESOLUTION, BORDER_K, ledger, printed,
                   filename, out, lp, lpCount, pollSeq, runs>>

LooksLikeMarkup(c) == c.kind \in {"html", "xml"}

\* The client's check of the first 100 bytes after a preprocessing failure:
\* b'<!DOCTYPE' in first_bytes or b'<html' in first_bytes.
LooksLikeHtml(c) == c.kind = "html"

\* preprocess_image_for_print(original_path, print_path) and its handlers.
PreprocessStep ==
    /\ pc = "preprocess"
    /\ out' = Preprocess(script, IMAGE_RESOLUTION, BORDER_K, img)
    /\ IF out'.ok
          THEN ev' = "processed" /\ pc' = "print"
          ELSE IF script = "client"
                  THEN /\ ev' = IF LooksLikeHtml(img) THEN "html_reported"
                                                      ELSE "process_failed"
                       /\ pc' = Continue("print")
                  ELSE ev' = "process_error" /\ pc' = Handler
    /\ UNCHANGED <<out2, calls, cups, PRINTER_NAME>>
    /\ UNCHANGED <<script, DRY_RUN, IMAGE_RESOLUTION, BORDER_K, ledger, printed,
                   filename, dl, img, lp, lpCount, pollSeq, runs>>

\* The position after a successful lp command: the client checks the printer
\* and the job before recording.
AfterLp == IF script = "client" THEN "postcheck" ELSE "record"

\* The print command, or its omission in dry-run mode.
Submit ==
    /\ pc = "print"
    /\ IF DRY_RUN
          THEN /\ lp' = "none" /\ ev' = "dry_run" /\ pc' = "record"
               /\ UNCHANGED lpCount
          ELSE \/ /\ lp' = "ok" /\ ev' = "submitted" /\ pc' = AfterLp
                  /\ lpCount' = [lpCount EXCEPT
                                    ![filename] = Min(@ + 1, 2)]
               \/ /\ lp' = "fail" /\ ev' = "print_failed"
                  /\ pc' = Continue("record")
                  /\ UNCHANGED lpCount
               \/ /\ lp' = "error" /\ ev' = "lp_error" /\ pc' = Handler
                  /\ UNCHANGED lpCount
    /\ UNCHANGED <<out2, calls, cups, PRINTER_NAME>>
    /\ UNCHANGED <<script, DRY_RUN, IMAGE_RESOLUTION, BORDER_K, ledger, printed,
                   filename, dl, img, out, pollSeq, runs>>

\* Client only: lpstat -p, the wait, lpstat -W completed, sudo tail of the
\* CUPS log.  Any of these subprocess calls can raise.
PostCheck ==
    /\ pc = "postcheck"
    /\ \/ ev' = "checked" /\ pc' = "record"
       \/ ev' = "postcheck_error" /\ pc' = Handler
    /\ UNCHANGED <<out2, calls, cups, PRINTER_NAME>>
    /\ UNCHANGED <<script, DRY_RUN, IMAGE_RESOLUTION, BORDER_K, ledger, printed,
                   filename, dl, img, out, lp, lpCount, pollSeq, runs>>

\* printed.add(filename), then the append to the ledger, which can raise.
Record ==
    /\ pc = "record"
    /\ printed' = printed \cup {filename}
    /\ \/ /\ ledger' = WriteLedger(ledger, filename)
          /\ ev' = "recorded" /\ pc' = "sleep5"
       \/ /\ ledger' = ledger
          /\ ev' = "ledger_error" /\ pc' = Handler
    /\ UNCHANGED <<out2, calls, cups, PRINTER_NAME>>
    /\ UNCHANGED <<script, DRY_RUN, IMAGE_RESOLUTION, BORDER_K, filename, dl,
                   img, out, lp, lpCount, pollSeq, runs>>

\* time.sleep(5) at the end of the body or on no job, time.sleep(10) in the
\* handler.
Sleep ==
    /\ pc \in {"sleep5", "sleep10"}
    /\ pc' = "poll"
    /\ ev' = "slept"
    /\ UNCHANGED <<out2, calls, cups, PRINTER_NAME>>
    /\ UNCHANGED <<script, DRY_RUN, IMAGE_RESOLUTION, BORDER_K, ledger, printed,
                   filename, dl, img, out, lp, lpCount, pollSeq, runs>>

\* The process is killed (power loss, Ctrl-C): memory is lost, the ledger
\* file stays.
Crash ==
    /\ pc \in LoopPcs \cup {"startup"}
    /\ runs < MaxRuns
    /\ pc' = "stopped"
    /\ ev' = "killed"
    /\ printed' = {} /\ filename' = NoFile
    /\ dl' = "none" /\ img' = NoImg /\ out' = NoOut /\ lp' = "none"
    /\ PRINTER_NAME' = Unset
    /\ UNCHANGED <<out2, calls, cups>>
    /\ UNCHANGED <<script, DRY_RUN, IMAGE_RESOLUTION, BORDER_K, ledger,
                   lpCount, pollSeq, runs>>

\* The script is started again, possibly with DRY_RUN edited.
Restart ==
    /\ pc \in {"stopped", "exited"}
    /\ runs < MaxRuns
    /\ runs' = runs + 1
    /\ pc' = "startup"
    /\ ev' = "start"
    /\ DRY_RUN' \in BOOLEAN
    /\ printed' = {} /\ filename' = NoFile
    /\ dl' = "none" /\ img' = NoImg /\ out' = NoOut /\ lp' = "none"
    /\ cups' \in LoopDiscoveries
    /\ PRINTER_NAME' = Unset
    /\ UNCHANGED <<out2, calls>>
    /\ UNCHANGED <<script, IMAGE_RESOLUTION, BORDER_K, ledger, lpCount, pollSeq>>

Run ==
    \/ Startup
    \/ Poll
    \/ Download
    \/ PreprocessStep
    \/ Submit
    \/ PostCheck
    \/ Record
    \/ Sleep

Next == Run \/ Crash \/ Restart

Spec == Init /\ [][Next]_vars

\* One run of the process, which keeps taking its next step.
FairSpec == Init /\ [][Run]_vars /\ WF_vars(Run)

(***************************************************************************)
(* The startup on its own: every discovery, one startup.                   *)
(***************************************************************************)
SelectInit ==
    /\ script \in Scripts
    /\ DRY_RUN \in BOOLEAN
    /\ cups \in Discoveries
    /\ PRINTER_NAME = Unset
    /\ IMAGE_RESOLUTION = "300dpi"
    /\ BORDER_K = 16
    /\ pc = "startup"
    /\ ledger = <<>>
    /\ printed = {}
    /\ filename = NoFile
    /\ dl = "none"
    /\ img = NoImg
    /\ out = NoOut
    /\ lp = "none"
    /\ ev = "start"
    /\ lpCount = [f \in Files |-> 0]
    /\ pollSeq = 0
    /\ runs = 0
    /\ out2 = NoOut
    /\ calls = <<>>

SelectNext == Startup

SelectSpec == SelectInit /\ [][SelectNext]_vars

(***************************************************************************)
(* Claims about the polling loop.                                          *)
(***************************************************************************)
\* The current iteration downloaded non-empty content, preprocessed it and,
\* outside dry-run, had lp return 0.
IterationSucceeded ==
    /\ dl = "ok" /\ img.kind # "empty"
    /\ out.ok
    /\ DRY_RUN \/ lp = "ok"

\* What the failure paths of a job log.
JobFailures ==
    {"download_failed", "download_empty", "download_error", "process_failed",
     "html_reported", "process_error", "print_failed", "lp_error"}

\* C1: inside the loop the ledger and the printed set change only in an
\* iteration whose download, preprocessing and (outside dry-run) lp command
\* succeeded, and then by the iteration's filename; every failure path of a
\* job leaves both unchanged.
C1_RecordOnlyOnSuccess ==
    [][ /\ (pc \in LoopPcs /\ pc' \in LoopPcs
               /\ (ledger' # ledger \/ printed' # printed))
            => /\ IterationSucceeded
               /\ printed' = printed \cup {filename}
               /\ ledger' \in {ledger, Append(ledger, filename)}
        /\ (pc \in LoopPcs /\ ev' \in JobFailures)
            => ledger' = ledger /\ printed' = printed ]_vars

\* A non-zero lp exit sent the process back to the top of the loop with the
\* filename in neither the ledger nor the printed set.
C1_Witness ==
    /\ ev = "print_failed" /\ lp = "fail" /\ pc = "poll"
    /\ filename \notin printed /\ filename \notin Range(ledger)

\* C2: a filename found in the printed set is not downloaded, preprocessed
\* or submitted in that iteration, and the step after the skip leaves the
\* ledger alone.
C2_PrintedIsSkipped ==
    /\ [](pc \in InFlightPcs => filename \notin printed)
    /\ [](ev = "skip" => /\ filename \in printed
                         /\ pc = "sleep5"
                         /\ dl = "none" /\ ~out.done /\ lp = "none")
    /\ [][ev = "skip" => ledger' = ledger]_vars

\* A filename recorded by an earlier run was polled again and skipped.
C2_Witness ==
    /\ ev = "skip" /\ runs = 1
    /\ filename \in printed /\ filename \in Range(ledger)

\* C3: each filename has at most one successful print submission over the
\* whole history, crashes and restarts included.
C3_AtMostOneSubmission == \A f \in Files : lpCount[f] <= 1

\* C4: after a failure of a job (or of the poll itself) the process is still
\* in the loop, and it polls the job source again.
C4_LoopSurvivesFailures ==
    /\ [](ev \in JobFailures \cup {"poll_error"} => pc \in LoopPcs)
    /\ \A n \in {0, 1} :
          (ev \in JobFailures \cup {"poll_error"} /\ pollSeq = n) ~> (pollSeq # n)

\* Markup was downloaded, preprocessing failed on it, and the process is at
\* the top of the loop.
C4_Witness ==
    /\ ev \in {"html_reported", "process_failed"} /\ img.kind \in {"html", "xml"}
    /\ pc = "poll"

\* C5: a filename for which download, preprocessing and printing keep
\* succeeding is eventually recorded in the ledger.
C5_SucceededJobRecorded ==
    \A f \in Files :
        []<>(filename = f /\ IterationSucceeded /\ lp = "ok")
            => <>(f \in Range(ledger))

\* C6: the ledger only grows, by one line, the iteration's filename, at a
\* time; every earlier content is a prefix of every later one, and startup
\* does not write it.
C6_LedgerAppendOnly ==
    [][ /\ IsPrefix(ledger, ledger')
        /\ ledger' # ledger => ledger' = Append(ledger, filename)
        /\ pc \in {"startup", "stopped", "exited"} => ledger' = ledger ]_vars

\* A restarted process appended a second line after the first run's line.
C6_Witness ==
    /\ runs = 1 /\ ev = "recorded" /\ Len(ledger) >= 2
    /\ ledger[Len(ledger)] = filename

(***************************************************************************)
(* Claims about the geometry (checked under GeomSpec).                     *)
(***************************************************************************)
Composed == pc = "returned" /\ out.ok

\* The safe rectangle is not empty: the border leaves room on both axes.
SafeRectPositive == out.availW > 0 /\ out.availH > 0

InsideSafeRect ==
    /\ out.x >= out.border
    /\ out.x + out.fitW <= out.canvasW - out.border
    /\ out.y >= out.border
    /\ out.y + out.fitH <= out.canvasH - out.border

\* C7: whenever preprocessing succeeds, the pasted raster lies inside the
\* safe rectangle on both axes: offset >= border_pixels and
\* offset + fitted_size <= canvas_size - border_pixels.
C7_FittedInsideSafeRect == Composed => InsideSafeRect

\* With a non-empty safe rectangle the pasted raster does lie inside it: C7
\* fails only where the border consumes an axis of the canvas.
FittedInsideWhenSafeRectPositive == Composed /\ SafeRectPositive => InsideSafeRect

\* The density the claims speak of for a resolution setting.
Density == IF IMAGE_RESOLUTION = "600dpi" THEN 600 ELSE 300

\* C8: in the client script the canvas is 6d x 4d for an upright source with
\* h <= w (the square included) and 4d x 6d for one with h > w.
C8_CanvasByOrientation ==
    Composed /\ script = "client" =>
        IF out.srcH <= out.srcW
            THEN out.canvasW = 6 * Density /\ out.canvasH = 4 * Density
            ELSE out.canvasW = 4 * Density /\ out.canvasH = 6 * Density

\* A portrait source at 600 dpi and a square source were both composed.
C8_Witness ==
    /\ Composed /\ script = "client" /\ IMAGE_RESOLUTION = "600dpi"
    /\ out.srcH > out.srcW /\ out.canvasW = 2400 /\ out.canvasH = 3600

C8_WitnessSquare ==
    /\ Composed /\ script = "client"
    /\ out.srcH = out.srcW /\ out.canvasW = 6 * Density

\* C9: the fitted raster spans the full safe rectangle on at least one axis,
\* for every source, small ones included (stated where the safe rectangle is
\* not empty).
C9_FitSpansSafeRect ==
    Composed /\ SafeRectPositive =>
        out.fitW = out.availW \/ out.fitH = out.availH

\* What the code does instead: a source that fits the safe rectangle on both
\* axes keeps its size; any other spans the safe rectangle on one axis.
FitOnlyShrinks ==
    Composed /\ SafeRectPositive =>
        IF out.srcW <= out.availW /\ out.srcH <= out.availH
            THEN out.fitW = out.srcW /\ out.fitH = out.srcH
            ELSE out.fitW = out.availW \/ out.fitH = out.availH

\* C10: the border is round(border_inches * density) pixels, to the nearest
\* integer (either way on an exact half), and the safe rectangle is the canvas
\* less twice the border on each axis.  BORDER_INCHES = BORDER_K / 64.
C10_BorderRounded ==
    Composed /\ script = "client" =>
        /\ 2 * Abs(64 * out.border - BORDER_K * Density) <= 64
        /\ out.availW = out.canvasW - 2 * out.border
        /\ out.availH = out.canvasH - 2 * out.border

\* What the code does instead: the border is truncated.
BorderTruncated ==
    Composed /\ script = "client" =>
        /\ 64 * out.border <= BORDER_K * Density
        /\ BORDER_K * Density < 64 * (out.border + 1)

\* C11: when the border consumes the canvas (canvas less twice the border is
\* not positive on some axis) preprocessing fails and composes nothing: a
\* composed output always has a non-empty safe rectangle.
C11_ConsumingBorderFails == Composed => SafeRectPositive

\* C12: on each axis the paste offset is floor((canvas - fitted) / 2): the
\* leading margin is the floor and the trailing margin the ceiling of half the
\* difference, so the two differ by at most one pixel.
C12_OffsetIsFloorHalf ==
    Composed =>
        LET dw == out.canvasW - out.fitW
            dh == out.canvasH - out.fitH
        IN  /\ 2 * out.x <= dw /\ dw <= 2 * out.x + 1
            /\ 2 * out.y <= dh /\ dh <= 2 * out.y + 1
            /\ (dw - out.x) - out.x \in {0, 1}
            /\ (dh - out.y) - out.y \in {0, 1}
            /\ dw - out.x = CeilDiv(dw, 2)
            /\ dh - out.y = CeilDiv(dh, 2)

\* A one-pixel-wide raster on the 1800-pixel canvas: 899 pixels to its left,
\* 900 to its right.
C12_Witness ==
    /\ Composed /\ out.canvasW = 1800 /\ out.fitW = 1
    /\ out.x = 899 /\ out.canvasW - out.fitW - out.x = 900

\* C13: the worked scenarios.  An upright 4000x3000 source at 300 dpi without
\* border gives canvas 1800x1200, fitted 1600x1200, offsets (100, 0); an
\* upright 3000x4000 source at 300 dpi with a 0.25 in border gives canvas
\* 1200x1800, border 75, safe area 1050x1650, fitted 1050x1400, offsets
\* (75, 200).  The second scenario is set in the client script, the only one
\* with a border setting.
C13_WorkedScenarios ==
    /\ Composed /\ out.srcW = 4000 /\ out.srcH = 3000 /\ out.dpi = 300
            /\ out.border = 0 /\ (script = "client" => BORDER_K = 0) =>
        /\ out.canvasW = 1800 /\ out.canvasH = 1200
        /\ out.fitW = 1600 /\ out.fitH = 1200
        /\ out.x = 100 /\ out.y = 0
    /\ Composed /\ script = "client" /\ out.srcW = 3000 /\ out.srcH = 4000
            /\ IMAGE_RESOLUTION = "300dpi" /\ BORDER_K = 16 =>
        /\ out.canvasW = 1200 /\ out.canvasH = 1800
        /\ out.border = 75
        /\ out.availW = 1050 /\ out.availH = 1650
        /\ out.fitW = 1050 /\ out.fitH = 1400
        /\ out.x = 75 /\ out.y = 200

\* The second scenario was composed, from a picture stored upright.
C13_Witness ==
    /\ Composed /\ script = "client" /\ IMAGE_RESOLUTION = "300dpi" /\ BORDER_K = 16
    /\ img.w = 3000 /\ img.h = 4000 /\ img.orient = 1
    /\ out.fitW = 1050 /\ out.fitH = 1400 /\ out.x = 75 /\ out.y = 200

\* The first scenario was composed by the legacy script.
C13_WitnessLegacy ==
    /\ Composed /\ script = "legacy" /\ img.w = 4000 /\ img.h = 3000 /\ img.orient = 1
    /\ out.fitW = 1600 /\ out.fitH = 1200 /\ out.x = 100 /\ out.y = 0

\* C14: every output preprocess_image_for_print writes, in either script, is
\* encoded non-progressive (single scan) and with full 4:4:4 chroma sampling.
C14_BaselineFullChroma ==
    Composed => ~out.progressive /\ out.subsampling = "4:4:4"

\* The client script's outputs are encoded so; every output of either script
\* is non-progressive.
ClientBaselineFullChroma ==
    Composed =>
        /\ ~out.progressive
        /\ script = "client" => out.subsampling = "4:4:4"

\* The colour c at opacity a composited over opaque white (255).
CompositeOverWhite(c, a) == (c * a + 255 * (255 - a)) \div 255

\* C15: for a source with an alpha channel, each output pixel is the source
\* colour composited over opaque white according to its alpha; a fully
\* transparent pixel becomes white whatever colour it stores.
C15_AlphaOverWhite ==
    Composed /\ img.mode = "RGBA" =>
        /\ out.px = CompositeOverWhite(img.px, img.alpha)
        /\ img.alpha = 0 => out.px = 255

\* What the code does instead: the output pixel is the stored colour, with
\* the alpha dropped.
AlphaDropped == Composed => out.px = img.px

\* C18: in the client script the canvas is 1800x1200 pixels (width x height)
\* for every input image, as the docstring of preprocess_image_for_print
\* states.
C18_CanvasAlways1800x1200 ==
    Composed /\ script = "client" => out.canvasW = 1800 /\ out.canvasH = 1200

\* What the client script composes instead is the canvas of C8; only
\* the legacy script composes 1800x1200 for every input.
LegacyCanvasAlways1800x1200 ==
    Composed /\ script = "legacy" => out.canvasW = 1800 /\ out.canvasH = 1200

(***************************************************************************)
(* Claims about failure reporting (checked under Spec).                    *)
(***************************************************************************)
\* The client's handler of a preprocessing failure has just run.
PreprocessFailureHandled ==
    script = "client" /\ ev \in {"html_reported", "process_failed"}

\* The downloaded content begins with a markup tag.
BeginsWithMarkup(c) == c.kind \in {"html", "xml"}

C16_WitnessHtml ==
    PreprocessFailureHandled /\ img.kind = "html" /\ ev = "html_reported"

(***************************************************************************)
(* Claims about repeated normalization (checked under GeomSpec).           *)
(***************************************************************************)
Renormalized == pc = "renormalized"

\* C17: normalizing an already-normalized output under the same resolution
\* and border settings gives an output with the same canvas dimensions, and
\* the whole first output is fitted inside the second canvas, uncropped: the
\* raster pasted is the first canvas scaled in proportion (to within a pixel)
\* and lies within the second canvas.
C17_RenormalizeKeepsCanvas ==
    Renormalized =>
        /\ out2.ok
        /\ out2.canvasW = out.canvasW /\ out2.canvasH = out.canvasH
        /\ out2.srcW = out.canvasW /\ out2.srcH = out.canvasH
        /\ out2.fitW <= out2.srcW /\ out2.fitH <= out2.srcH
        /\ Abs(out2.fitW * out2.srcH - out2.fitH * out2.srcW)
              <= Max(out2.srcW, out2.srcH)
        /\ out2.x >= 0 /\ out2.x + out2.fitW <= out2.canvasW
        /\ out2.y >= 0 /\ out2.y + out2.fitH <= out2.canvasH

\* A portrait output with the 0.25 in border was normalized again: the
\* 1200x1800 canvas is scaled to 1050x1575 on a 1200x1800 canvas.
C17_Witness ==
    /\ Renormalized /\ script = "client" /\ BORDER_K = 16
    /\ out.canvasW = 1200 /\ out.canvasH = 1800
    /\ out2.canvasW = 1200 /\ out2.canvasH = 1800
    /\ out2.fitW = 1050 /\ out2.fitH = 1575

(***************************************************************************)
(* Claims about the EXIF orientation (checked under GeomSpec).             *)
(***************************************************************************)
\* The picture `im` stored the other way round and marked upright.
StoredUpright(im) == [im EXCEPT !.w = im.h, !.h = im.w, !.orient = 1]

\* C20: classification, canvas selection and fitting use the dimensions after
\* the EXIF orientation is applied: a source stored as w x h with an
\* orientation code 5..8 is classified and fitted as an h x w image, and so
\* gets the output of the same picture stored upright as h x w.
C20_OrientationAppliedFirst ==
    Composed /\ img.orient \in 5..8 =>
        /\ out.srcW = img.h /\ out.srcH = img.w
        /\ script = "client" =>
              IF img.w > img.h
                  THEN out.canvasW = 4 * Density /\ out.canvasH = 6 * Density
                  ELSE out.canvasW = 6 * Density /\ out.canvasH = 4 * Density
        /\ out = Preprocess(script, IMAGE_RESOLUTION, BORDER_K, StoredUpright(img))

\* A picture stored 4000x3000 with orientation 6 was composed as the portrait
\* 3000x4000 of the second worked scenario.
C20_Witness ==
    /\ Composed /\ script = "client" /\ IMAGE_RESOLUTION = "300dpi" /\ BORDER_K = 16
    /\ img.orient = 6 /\ img.w = 4000 /\ img.h = 3000
    /\ out.canvasW = 1200 /\ out.canvasH = 1800
    /\ out.fitW = 1050 /\ out.fitH = 1400

(***************************************************************************)
(* Claims about concurrent calls (checked under ConcSpec).                 *)
(***************************************************************************)
\* C19: two calls of preprocess_image_for_print running concurrently on
\* different input and output paths do not interfere: the output each call
\* writes is the output of that call alone on its own input under the
\* configuration, and a statement of one call changes neither the locals nor
\* the output file of the other.
C19_ConcurrentCallsIndependent ==
    /\ [](\A c \in CallIds :
            calls.pc[c] = "done" =>
                calls.file[c] = Preprocess(script, IMAGE_RESOLUTION, BORDER_K,
                                           calls.inp[c]))
    /\ [][\A c \in CallIds :
            calls'.pc[c] = calls.pc[c] =>
                /\ calls'.frame[c] = calls.frame[c]
                /\ calls'.file[c] = calls.file[c]
                /\ calls'.inp[c] = calls.inp[c]]_vars

\* Both calls are between their statements at once, before canvas.save, on
\* pictures of different orientation: each frame holds its own geometry.
C19_Witness ==
    /\ pc = "concurrent" /\ script = "client"
    /\ calls.pc[1] = "save" /\ calls.pc[2] = "save"
    /\ calls.inp[1] # calls.inp[2]
    /\ calls.frame[1].tw # calls.frame[2].tw
    /\ calls.frame[1].fitW # calls.frame[2].fitW

\* Both calls finished and each wrote its own output.
C19_WitnessDone ==
    /\ pc = "concurrent"
    /\ calls.pc[1] = "done" /\ calls.pc[2] = "done"
    /\ calls.inp[1] # calls.inp[2]
    /\ calls.file[1].ok /\ calls.file[2].ok
    /\ calls.file[1].canvasW # calls.file[2].canvasW

(***************************************************************************)
(* Claims about the startup (checked under SelectSpec).                    *)
(***************************************************************************)
\* The startup has run to its end: the loop was entered or the process left.
StartupDone == pc \in {"poll", "exited"}

\* The printer the priority rule names: the environment value if it is
\* listed, else the system default if it is listed, else the first listed.
ByPriority ==
    IF cups.env_printer # "" /\ cups.env_printer \in Range(cups.printers)
        THEN cups.env_printer
    ELSE IF cups.default_printer # "" /\ cups.default_printer \in Range(cups.printers)
        THEN cups.default_printer
    ELSE cups.printers[1]

\* C21: when at least one printer is discovered, the selected printer is the
\* PRINTER_NAME environment value if listed, else the system default if
\* listed, else the first discovered one, and is always a member of the
\* discovered list; without a printer and with dry-run off the process exits
\* before the polling loop.
C21_SelectedByPriority ==
    /\ pc = "poll" /\ cups.printers # <<>> =>
          PRINTER_NAME = ByPriority /\ PRINTER_NAME \in Range(cups.printers)
    /\ StartupDone /\ cups.printers = <<>> /\ ~DRY_RUN => pc = "exited"

\* C21, amended: the client script selects by that priority.  The legacy
\* script takes the environment value if listed and otherwise the printer the
\* operator picks at the prompt (the default, else the first, on Enter), or
\* exits if the operator cancels.  In both scripts the selected printer is a
\* member of the discovered list, and without a printer and with dry-run off
\* the process exits before the polling loop.
C21_SelectedFromList ==
    /\ pc = "poll" /\ cups.printers # <<>> =>
          /\ PRINTER_NAME \in Range(cups.printers)
          /\ script = "client" => PRINTER_NAME = ByPriority
          /\ EnvValid(cups) => PRINTER_NAME = cups.env_printer
    /\ StartupDone /\ cups.printers = <<>> /\ ~DRY_RUN => pc = "exited"
    /\ pc = "poll" /\ cups.printers = <<>> => DRY_RUN /\ PRINTER_NAME = "None"

\* The client selected the system default, listed second, because the
\* environment names a printer that is not listed.
C21_Witness ==
    /\ pc = "poll" /\ script = "client"
    /\ cups.printers = <<"office", "selphy">>
    /\ cups.env_printer = "ghost" /\ cups.default_printer = "selphy"
    /\ PRINTER_NAME = "selphy"

\* The process exited at startup: no printer, dry-run off.
C21_WitnessExit ==
    pc = "exited" /\ ev = "no_printer" /\ cups.printers = <<>> /\ ~DRY_RUN

(***************************************************************************)
(* Claims about the ledger, dry-run and the pace of polling (checked       *)
(* under Spec).                                                            *)
(***************************************************************************)
\* C22: at the start of every iteration of the polling loop, in every run,
\* the in-memory printed set equals the set of lines of the ledger file.
C22_PrintedEqualsLedger == pc = "poll" => printed = Range(ledger)

\* What holds instead: at the start of an iteration every line of the ledger
\* is in the printed set.
LedgerWithinPrinted == pc = "poll" => Range(ledger) \subseteq printed

\* C23: in dry-run mode no lp command is invoked, yet every filename that
\* downloaded and preprocessed successfully is appended to the ledger and
\* added to the printed set, and a filename in the ledger is skipped by
\* every later poll, of a run with dry-run off included.
C23_DryRunRecords ==
    /\ [](DRY_RUN => lp = "none")
    /\ [][DRY_RUN /\ pc = "print" /\ pc' # "stopped" =>
            lpCount' = lpCount /\ pc' = "record"]_vars
    /\ [][DRY_RUN /\ pc = "record" /\ pc' # "stopped" =>
            filename \in printed' /\ filename \in Range(ledger')]_vars
    /\ [][pc = "poll" /\ filename' \in Range(ledger) => ev' = "skip"]_vars

\* What holds instead: the same, except that the ledger append of the record
\* step can raise and leave the filename out of the ledger.
DryRunRecordsUnlessWriteRaises ==
    /\ [](DRY_RUN => lp = "none")
    /\ [][DRY_RUN /\ pc = "print" /\ pc' # "stopped" =>
            lpCount' = lpCount /\ pc' = "record"]_vars
    /\ [][DRY_RUN /\ pc = "record" /\ pc' # "stopped" =>
            /\ filename \in printed'
            /\ filename \in Range(ledger') \/ ev' = "ledger_error"]_vars
    /\ [][pc = "poll" /\ filename' \in Range(ledger) => ev' = "skip"]_vars

\* A later run with dry-run off skips a filename that a dry run recorded
\* without any lp command.
DryRunRecordSkippedLater ==
    /\ runs = 1 /\ ~DRY_RUN /\ ev = "skip"
    /\ filename \in Range(ledger) /\ lpCount[filename] = 0

\* C24: every poll of the job source other than the first of a run is
\* preceded by a sleep since the previous poll, on every path through the
\* loop body: the process comes to the poll only from a sleep or, for the
\* first poll, from the startup.
C24_SleepBeforeRepoll ==
    [][pc' = "poll" /\ pc # "poll" => pc \in {"sleep5", "sleep10", "startup"}]_vars

\* What holds instead: the process comes to the poll without a sleep exactly
\* on the paths that end in `continue` after a failure of the job.
SleepBeforeRepollUnlessContinue ==
    [][pc' = "poll" /\ pc \notin {"poll", "sleep5", "sleep10", "startup"} =>
        ev' \in {"download_failed", "download_empty", "html_reported",
                 "process_failed", "print_failed"}]_vars

=============================================================================
